---- MODULE Spec2Model ----
(***************************************************************************)
(* The document listing of the SEC Edgar explorer frontend: the            *)
(* useDocuments hook (filter state, request deduplication, list requests   *)
(* and their resolutions) and the DocumentList view that drives it         *)
(* (search box, FilterBar, Pagination, sync button); the debounced          *)
(* SearchBar in front of it; and the SearchPanel of the AI search tab.     *)
(***************************************************************************)
EXTENDS Integers, Sequences, FiniteSets, TLC

\* ------------------------------------------------------------------ bounds
\* list requests awaited at once
MaxInflight == 2
\* largest page index the paging operations are followed to
MaxPage == 2
\* refresh timers pending at once
MaxTimers == 1
\* milliseconds between two looks at the clock
TickMs == 100
\* keystrokes counted in one burst of typing
MaxBurst == 2
\* largest page count, and page index, handed to the Pagination
MaxTotalPages == 10

\* ------------------------------------------------------ program constants
DefaultLimit == 20
\* delay of the SearchBar between the last keystroke and the search
DebounceMs == 300

\* JavaScript's undefined and null, and the strings of the program
UNDEFINED == "<undefined>"
NULL == "<null>"
FallbackError == "Failed to fetch documents"
BlankQueryError == "Please enter a search query"
SearchFallbackError == "An error occurred while searching. Please try again."
SyncFallbackError == "Failed to sync documents"

\* ------------------------------------------------------------ value sets
\* filter keys other than skip and limit, and the values given to them
HookKeys == {"search", "filing_type"}
BarKeys == <<"filing_type", "company_name", "start_date", "end_date">>
Values == {"a"}
\* a page size other than the default, given by a client of the hook
OtherLimit == 10
Pages == -1 .. MaxPage
\* detail field of a failed response: no response at all, an empty detail, a message
Details == {UNDEFINED, "", "Not found"}
\* list responses of the backend: number of items and total
Responses == { [n |-> 0, total |-> 0], [n |-> 5, total |-> 45], [n |-> 0, total |-> 45] }

VARIABLES
  mounted,        \* the component has rendered and its mount effect has run
  filters,        \* useState filters: [skip, limit, rest], rest the other keys in insertion order
  prevFiltersRef, \* useRef: <<>> (undefined) or <<serialized filters of the last request>>
  documents,      \* useState documents
  total,          \* useState total
  loading,        \* useState loading
  error,          \* useState error
  inflight,       \* list requests awaited, oldest first: the params of each
  latest,         \* the most recently issued list request: "none", "pending", "ok", "failed"
  shownStale,     \* the response on display arrived when its request was no longer the latest
  lastCall,       \* the last call of a hook operation: [op, p, issued, again, before], again
                  \* the requests issued by the call before it when both are updateFilters(p),
                  \* else -1; before <<the filters before nextPage()>> for nextPage() and for
                  \* the prevPage() that follows it, else <<>>
  localFilters,   \* FilterBar useState localFilters
  syncing,        \* DocumentList useState syncing
  syncMessage,    \* DocumentList useState syncMessage: the parts of the text, in order
  syncInflight,   \* the POST /api/documents/sync requests awaited
  timers,         \* pending setTimeout(refetch, 1000) callbacks
  searchBar,      \* SearchBar: [value, pending, elapsed, idle, keys, fired]: the input text,
                  \* whether a debounce timer is pending and the ms it has run, the ms since
                  \* the last keystroke, the keystrokes of the burst under way and of the
                  \* burst that ended with the last search
  pagination,     \* a Pagination on its own: [currentPage, totalPages] the props, rendered
                  \* "no" (not yet), "null" or "controls", pageNumbers the window and
                  \* buttons the pages of the page buttons rendered, in order
  panel           \* SearchPanel useState: [query, companyFilter, filingTypeFilter, limit,
                  \* loading, result, error] and posts, the POST /search bodies awaited

hookVars == <<filters, prevFiltersRef, documents, total, loading, error, inflight, latest, shownStale, lastCall>>
sideVars == <<searchBar, panel, pagination>>
viewVars == <<localFilters, syncing, syncMessage, syncInflight, timers, sideVars>>
vars == <<mounted, filters, prevFiltersRef, documents, total, loading, error, inflight,
          latest, shownStale, lastCall, localFilters, syncing, syncMessage, syncInflight, timers,
          searchBar, panel, pagination>>

\* ------------------------------------------------------- object helpers
HasKey(rest, k) == \E i \in DOMAIN rest : rest[i][1] = k

Get(rest, k) == IF HasKey(rest, k)
                THEN rest[CHOOSE i \in DOMAIN rest : rest[i][1] = k][2]
                ELSE UNDEFINED

\* obj[k] = v: an existing key keeps its place, a new key goes last
Put(rest, k, v) ==
  IF HasKey(rest, k)
  THEN [i \in DOMAIN rest |-> IF rest[i][1] = k THEN <<k, v>> ELSE rest[i]]
  ELSE Append(rest, <<k, v>>)

RECURSIVE SpreadRest(_, _)
SpreadRest(rest, more) ==
  IF more = <<>> THEN rest
  ELSE SpreadRest(Put(rest, more[1][1], more[1][2]), Tail(more))

\* { ...prev, ...p }: p is [skip, limit, rest] with skip and limit <<>> when absent
Spread(prev, p) ==
  [skip  |-> IF p.skip = <<>> THEN prev.skip ELSE p.skip[1],
   limit |-> IF p.limit = <<>> THEN prev.limit ELSE p.limit[1],
   rest  |-> SpreadRest(prev.rest, p.rest)]

EmptyPartial == [skip |-> <<>>, limit |-> <<>>, rest |-> <<>>]

\* JSON.stringify(filters): keys in insertion order, undefined values left out
JSONstringify(f) ==
  [skip |-> f.skip, limit |-> f.limit,
   rest |-> SelectSeq(f.rest, LAMBDA e : e[2] # UNDEFINED)]

\* useState({ skip: 0, limit: 20, ...initialFilters })
InitialState(initialFilters) ==
  Spread([skip |-> 0, limit |-> DefaultLimit, rest |-> <<>>], initialFilters)

\* ------------------------------------------------------ inputs of the hook
RestPartials ==
  {<<>>}
  \cup { << <<k, v>> >> : k \in HookKeys, v \in Values \cup {UNDEFINED} }
  \cup { << <<"filing_type", "a">>, <<"search", "a">> >> }

Partials ==
  [skip : {<<>>}, limit : {<<>>}, rest : RestPartials]
  \cup { [skip |-> <<DefaultLimit>>, limit |-> <<>>, rest |-> << <<"search", "a">> >>],
         [skip |-> <<>>, limit |-> <<OtherLimit>>, rest |-> <<>>] }

\* the payloads followed while other requests are awaited
FewPartials ==
  { [EmptyPartial EXCEPT !.rest = << <<"search", v>> >>] : v \in {"a", UNDEFINED} }

InitialFilters ==
  { EmptyPartial,
    [EmptyPartial EXCEPT !.limit = <<OtherLimit>>],
    [EmptyPartial EXCEPT !.rest = << <<"search", "a">> >>] }

NoCall == [op |-> "none", p |-> EmptyPartial, issued |-> 0, again |-> -1, before |-> <<>>]

\* --------------------------------------------------------- the fetch effect
\* a guard comparing the filters object itself with the remembered value never matches
Suppressed_ByReference(f) == FALSE

\* the guard of fetchDocuments: the serialized filters equal the remembered ones
Suppressed(f) == prevFiltersRef = <<JSONstringify(f)>>

\* an effect that issues the request without remembering what it asked for
FetchDocuments_NoRemember(f) ==
  IF Suppressed(f)
  THEN UNCHANGED <<prevFiltersRef, loading, error, inflight, latest>>
  ELSE /\ UNCHANGED prevFiltersRef
       /\ loading' = TRUE
       /\ error' = NULL
       /\ inflight' = Append(inflight, f)
       /\ latest' = "pending"

\* useEffect(() => fetchDocuments(), [filters]) up to its await
FetchDocuments(f) ==
  IF Suppressed(f)
  THEN UNCHANGED <<prevFiltersRef, loading, error, inflight, latest>>
  ELSE /\ prevFiltersRef' = <<JSONstringify(f)>>
       /\ loading' = TRUE
       /\ error' = NULL
       /\ inflight' = Append(inflight, f)
       /\ latest' = "pending"

\* setFilters(f): the state is replaced by a new object, the component renders
\* and the effect on [filters] runs
SetFilters(f, op, p) ==
  /\ mounted
  /\ filters' = f
  /\ FetchDocuments(f)
  /\ lastCall' = [op |-> op, p |-> p, issued |-> Len(inflight') - Len(inflight),
                  again |-> IF op = "updateFilters" /\ lastCall.op = op /\ lastCall.p = p
                            THEN lastCall.issued ELSE -1,
                  before |-> IF op = "nextPage" THEN <<filters>>
                             ELSE IF op = "prevPage" /\ lastCall.op = "nextPage"
                                  THEN lastCall.before ELSE <<>>]
  /\ UNCHANGED <<mounted, documents, total, shownStale>>

\* ------------------------------------------------- operations of the hook
\* the merge without the reset of skip
updateFiltersResult_NoReset(prev, newFilters) == Spread(prev, newFilters)

updateFiltersResult(prev, newFilters) == [Spread(prev, newFilters) EXCEPT !.skip = 0]

\* a reset that keeps the page size in use
clearFiltersResult_KeepLimit == [skip |-> 0, limit |-> filters.limit, rest |-> <<>>]

clearFiltersResult == [skip |-> 0, limit |-> DefaultLimit, rest |-> <<>>]

\* a refetch that goes back to the first page
refetchResult_Reset(prev) == [prev EXCEPT !.skip = 0]

refetchResult(prev) == prev

\* the step forward by the default page size instead of the page size in use
nextPageResult_ByDefault(prev) == [prev EXCEPT !.skip = prev.skip + DefaultLimit]

nextPageResult(prev) == [prev EXCEPT !.skip = prev.skip + prev.limit]

Max(a, b) == IF a >= b THEN a ELSE b

\* the step back without the clamp at 0
prevPageResult_NoClamp(prev) == [prev EXCEPT !.skip = prev.skip - prev.limit]

\* the step back by one document instead of one page
prevPageResult_ByOne(prev) == [prev EXCEPT !.skip = Max(0, prev.skip - 1)]

prevPageResult(prev) == [prev EXCEPT !.skip = Max(0, prev.skip - prev.limit)]

\* a jump that stays where it is when the page lies beyond the known total
goToPageResult_Clamped(prev, page) ==
  IF page > 0 /\ page * prev.limit >= total
  THEN prev
  ELSE [prev EXCEPT !.skip = page * prev.limit]

goToPageResult(prev, page) == [prev EXCEPT !.skip = page * prev.limit]

updateFilters(newFilters) ==
  SetFilters(updateFiltersResult(filters, newFilters), "updateFilters", newFilters)

clearFilters == SetFilters(clearFiltersResult, "clearFilters", EmptyPartial)

refetch == SetFilters(refetchResult(filters), "refetch", EmptyPartial)

nextPage == SetFilters(nextPageResult(filters), "nextPage", EmptyPartial)

prevPage == SetFilters(prevPageResult(filters), "prevPage", EmptyPartial)

goToPage(page) == SetFilters(goToPageResult(filters, page), "goToPage", EmptyPartial)

\* ------------------------------------------------ resolution of a request
\* response.data.items of the answer d
Items(d) == [i \in 1 .. d.n |-> [id |-> i]]

\* the fallback taken with ?? in place of ||: an empty detail is kept
ErrorMessage_Nullish(detail) == IF detail = UNDEFINED THEN FallbackError ELSE detail

\* the server's detail ignored
ErrorMessage_Generic(detail) == FallbackError

\* err.response?.data?.detail || 'Failed to fetch documents'
ErrorMessage(detail) == IF detail \in {UNDEFINED, ""} THEN FallbackError ELSE detail

Remove(seq, i) == [j \in 1 .. Len(seq) - 1 |-> IF j < i THEN seq[j] ELSE seq[j + 1]]

\* request i of inflight is the most recently issued one
IsLatest(i) == latest = "pending" /\ i = Len(inflight)

\* a resolution that drops the response of every request but the latest issued
ListOK_LatestOnly(i, d) ==
  /\ i \in DOMAIN inflight
  /\ IF IsLatest(i)
     THEN documents' = Items(d) /\ total' = d.total
     ELSE UNCHANGED <<documents, total>>
  /\ loading' = FALSE
  /\ inflight' = Remove(inflight, i)
  /\ latest' = IF IsLatest(i) THEN "ok" ELSE latest
  /\ shownStale' = FALSE
  /\ UNCHANGED <<mounted, filters, prevFiltersRef, error, lastCall>>

\* the await of request i returns: setDocuments, setTotal, finally setLoading(false)
ListOK(i, d) ==
  /\ i \in DOMAIN inflight
  /\ documents' = Items(d)
  /\ total' = d.total
  /\ loading' = FALSE
  /\ inflight' = Remove(inflight, i)
  /\ latest' = IF IsLatest(i) THEN "ok" ELSE latest
  /\ shownStale' = ~IsLatest(i)
  /\ UNCHANGED <<mounted, filters, prevFiltersRef, error, lastCall>>

\* a failure handler that sends the failed request again
ListFail_Retry(i, detail) ==
  /\ i \in DOMAIN inflight
  /\ error' = ErrorMessage(detail)
  /\ loading' = FALSE
  /\ inflight' = Append(Remove(inflight, i), inflight[i])
  /\ latest' = "pending"
  /\ UNCHANGED <<mounted, filters, prevFiltersRef, documents, total, shownStale, lastCall>>

\* the await of request i throws: setError, finally setLoading(false)
ListFail(i, detail) ==
  /\ i \in DOMAIN inflight
  /\ error' = ErrorMessage(detail)
  /\ loading' = FALSE
  /\ inflight' = Remove(inflight, i)
  /\ latest' = IF IsLatest(i) THEN "failed" ELSE latest
  /\ UNCHANGED <<mounted, filters, prevFiltersRef, documents, total, shownStale, lastCall>>

\* first render: the effect runs with prevFiltersRef undefined
Mount ==
  /\ ~mounted
  /\ mounted' = TRUE
  /\ FetchDocuments(filters)
  /\ UNCHANGED <<filters, documents, total, shownStale, lastCall>>

\* ------------------------------------------- the hook, called by any client
InitHook(f) ==
  /\ mounted = FALSE
  /\ filters = f
  /\ prevFiltersRef = <<>>
  /\ documents = <<>>
  /\ total = 0
  /\ loading = FALSE
  /\ error = NULL
  /\ inflight = <<>>
  /\ latest = "none"
  /\ shownStale = FALSE
  /\ lastCall = NoCall

\* a Pagination given its props and not rendered yet
Unrendered(cur, pages) ==
  [currentPage |-> cur, totalPages |-> pages, rendered |-> "no",
   pageNumbers |-> <<>>, buttons |-> <<>>]

InitControls ==
  /\ localFilters = [k \in {BarKeys[i] : i \in DOMAIN BarKeys} |->
                       IF Get(filters.rest, k) = UNDEFINED THEN "" ELSE Get(filters.rest, k)]
  /\ syncing = FALSE
  /\ syncMessage = <<>>
  /\ syncInflight = 0
  /\ timers = 0
  /\ searchBar = [value |-> "", pending |-> FALSE, elapsed |-> 0, idle |-> 0,
                  keys |-> 0, fired |-> 0]
  /\ panel = [query |-> <<>>, companyFilter |-> "", filingTypeFilter |-> "", limit |-> 5,
              loading |-> FALSE, result |-> NULL, error |-> NULL, posts |-> <<>>]

InitView ==
  /\ InitControls
  /\ pagination = Unrendered(0, 0)

\* f may be set with at most cap requests awaited afterwards
Room(f, cap) == Suppressed(f) \/ Len(inflight) < cap

\* the page index of f is within the pages followed
PageInBound(f) == f.skip <= MaxPage * f.limit

DoMount == Mount /\ UNCHANGED viewVars

DoUpdateFilters(P, cap) ==
  \E p \in P : Room(updateFiltersResult(filters, p), cap) /\ updateFilters(p) /\ UNCHANGED viewVars

DoClearFilters(cap) == Room(clearFiltersResult, cap) /\ clearFilters /\ UNCHANGED viewVars

DoRefetch == refetch /\ UNCHANGED viewVars

DoNextPage(cap) ==
  /\ Room(nextPageResult(filters), cap)
  /\ PageInBound(nextPageResult(filters))
  /\ nextPage
  /\ UNCHANGED viewVars

DoPrevPage(cap) == Room(prevPageResult(filters), cap) /\ prevPage /\ UNCHANGED viewVars

DoGoToPage(N, cap) ==
  \E n \in N : Room(goToPageResult(filters, n), cap) /\ goToPage(n) /\ UNCHANGED viewVars

DoListOK == \E i \in DOMAIN inflight : \E d \in Responses : ListOK(i, d) /\ UNCHANGED viewVars

DoListFail == \E i \in DOMAIN inflight : \E d \in Details : ListFail(i, d) /\ UNCHANGED viewVars

\* the hook under every call of its operations, one list request at a time
Init ==
  /\ \E i \in InitialFilters : InitHook(InitialState(i))
  /\ InitView

Next ==
  \/ DoMount
  \/ DoUpdateFilters(Partials, 1)
  \/ DoClearFilters(1)
  \/ DoRefetch
  \/ DoNextPage(1)
  \/ DoPrevPage(1)
  \/ DoGoToPage(Pages, 1)
  \/ DoListOK
  \/ DoListFail

Spec == Init /\ [][Next]_vars

\* the hook with up to MaxInflight list requests awaited at once
InitRace ==
  /\ InitHook(InitialState(EmptyPartial))
  /\ InitView

NextRace ==
  \/ DoMount
  \/ DoUpdateFilters(FewPartials, MaxInflight)
  \/ DoClearFilters(MaxInflight)
  \/ DoRefetch
  \/ DoNextPage(MaxInflight)
  \/ DoPrevPage(MaxInflight)
  \/ DoListOK
  \/ DoListFail

SpecRace == InitRace /\ [][NextRace]_vars

\* ------------------------------------------------------ derived values
currentPage == filters.skip \div filters.limit

\* the page count rounded down instead of up
totalPages_Floor == total \div filters.limit

totalPages == (total + filters.limit - 1) \div filters.limit

Min(a, b) == IF a <= b THEN a ELSE b

\* the window without the adjustment near the end
getPageNumbers_NoAdjust(cur, pages) ==
  LET showPages == 5
      startPage == Max(0, cur - (showPages \div 2))
      endPage == Min(pages - 1, startPage + showPages - 1)
  IN  [i \in 1 .. (endPage - startPage + 1) |-> startPage + i - 1]

\* Pagination getPageNumbers: the window of page buttons
getPageNumbers(cur, pages) ==
  LET showPages == 5
      startPage == Max(0, cur - (showPages \div 2))
      endPage == Min(pages - 1, startPage + showPages - 1)
      start == IF endPage - startPage < showPages - 1
               THEN Max(0, endPage - showPages + 1)
               ELSE startPage
  IN  [i \in 1 .. (endPage - start + 1) |-> start + i - 1]

\* the pages of the page buttons, in the order rendered: page 1, the window,
\* the last page
NumberButtons(cur, pages) ==
  (IF cur > 2 THEN <<0>> ELSE <<>>)
  \o getPageNumbers(cur, pages)
  \o (IF cur < pages - 3 THEN <<pages - 1>> ELSE <<>>)

\* the pages that have a button
PageButtons(cur, pages) ==
  {NumberButtons(cur, pages)[i] : i \in DOMAIN NumberButtons(cur, pages)}

\* ----------------------------------------------- the DocumentList view
BarKeySet == {BarKeys[i] : i \in DOMAIN BarKeys}

\* the FilterBar controls the model operates, and what is entered
BarInputs == {"filing_type", "company_name"}
Terms == {"", "a"}

\* FilterBar handleFilterChange: the entries of newFilters with a truthy value
CleanFilters(newFilters) ==
  SelectSeq([i \in DOMAIN BarKeys |-> <<BarKeys[i], newFilters[BarKeys[i]]>>],
            LAMBDA e : e[2] # "")

\* the payload { search: searchTerm || undefined }
SearchPayload(searchTerm) ==
  [EmptyPartial EXCEPT
     !.rest = << <<"search", IF searchTerm = "" THEN UNDEFINED ELSE searchTerm>> >>]

\* a handler that passes the text on as it is, the empty text included
handleSearch_KeepEmpty(searchTerm) ==
  updateFilters([EmptyPartial EXCEPT !.rest = << <<"search", searchTerm>> >>])

\* DocumentList handleSearch, called by the SearchBar
handleSearch(searchTerm) == updateFilters(SearchPayload(searchTerm))

\* FilterBar handleFilterChange, onFilterChange being DocumentList handleFilterChange
handleFilterChange(key, value) ==
  LET newFilters == [localFilters EXCEPT ![key] = value]
  IN  /\ localFilters' = newFilters
      /\ updateFilters([EmptyPartial EXCEPT !.rest = CleanFilters(newFilters)])
      /\ UNCHANGED <<syncing, syncMessage, syncInflight, timers, sideVars>>

hasActiveFilters == \E k \in BarKeySet : localFilters[k] # ""

\* FilterBar handleClearFilters, behind the 'Clear All Filters' button
handleClearFilters ==
  /\ hasActiveFilters
  /\ localFilters' = [k \in BarKeySet |-> ""]
  /\ updateFilters(EmptyPartial)
  /\ UNCHANGED <<syncing, syncMessage, syncInflight, timers, sideVars>>

\* the 'Clear Filters' button of the empty state
ClickClearFilters ==
  /\ ~loading
  /\ documents = <<>>
  /\ clearFilters
  /\ UNCHANGED viewVars

\* the Pagination is rendered under the document grid
PaginationShown == ~loading /\ documents # <<>> /\ totalPages > 1

ClickPrev ==
  /\ PaginationShown
  /\ currentPage # 0
  /\ prevPage
  /\ UNCHANGED viewVars

ClickNext ==
  /\ PaginationShown
  /\ ~(currentPage >= totalPages - 1)
  /\ nextPage
  /\ UNCHANGED viewVars

ClickPage(page) ==
  /\ PaginationShown
  /\ page \in PageButtons(currentPage, totalPages)
  /\ goToPage(page)
  /\ UNCHANGED viewVars

\* a Sync button that stays enabled while a sync is under way
handleSync_NotDisabled ==
  /\ mounted
  /\ timers < MaxTimers
  /\ syncing' = TRUE
  /\ syncMessage' = <<>>
  /\ syncInflight' = syncInflight + 1
  /\ UNCHANGED <<mounted, localFilters, timers, sideVars>>
  /\ UNCHANGED hookVars

\* DocumentList handleSync up to its await
handleSync ==
  /\ mounted
  /\ ~syncing
  /\ timers < MaxTimers
  /\ syncing' = TRUE
  /\ syncMessage' = <<>>
  /\ syncInflight' = syncInflight + 1
  /\ UNCHANGED <<mounted, localFilters, timers, sideVars>>
  /\ UNCHANGED hookVars

\* the sync returns: the message, setTimeout(refetch, 1000), finally setSyncing(false)
SyncOK ==
  /\ syncInflight > 0
  /\ syncMessage' = <<"Success! Created ">>
  /\ timers' = timers + 1
  /\ syncing' = FALSE
  /\ syncInflight' = syncInflight - 1
  /\ UNCHANGED <<mounted, localFilters, sideVars>>
  /\ UNCHANGED hookVars

\* the sync throws: `Error: ${detail || 'Failed to sync documents'}`
SyncFail(detail) ==
  /\ syncInflight > 0
  /\ syncMessage' = <<"Error: ", IF detail \in {UNDEFINED, ""} THEN SyncFallbackError ELSE detail>>
  /\ syncing' = FALSE
  /\ syncInflight' = syncInflight - 1
  /\ UNCHANGED <<mounted, localFilters, timers, sideVars>>
  /\ UNCHANGED hookVars

\* the timer set by a successful sync fires
TimerFires ==
  /\ timers > 0
  /\ timers' = timers - 1
  /\ refetch
  /\ UNCHANGED <<localFilters, syncing, syncMessage, syncInflight, sideVars>>

AppSearch(cap) ==
  \E t \in Terms :
    /\ Room(updateFiltersResult(filters, SearchPayload(t)), cap)
    /\ handleSearch(t)
    /\ UNCHANGED viewVars

AppFilterChange(cap) ==
  \E k \in BarInputs : \E v \in Terms :
    /\ Room(updateFiltersResult(filters,
              [EmptyPartial EXCEPT !.rest = CleanFilters([localFilters EXCEPT ![k] = v])]), cap)
    /\ handleFilterChange(k, v)

AppClearAll(cap) == Room(updateFiltersResult(filters, EmptyPartial), cap) /\ handleClearFilters

AppClearFilters(cap) == Room(clearFiltersResult, cap) /\ ClickClearFilters

AppPrev(cap) == Room(prevPageResult(filters), cap) /\ ClickPrev

AppNext(cap) ==
  /\ Room(nextPageResult(filters), cap)
  /\ PageInBound(nextPageResult(filters))
  /\ ClickNext

AppPage(cap) ==
  \E n \in 0 .. MaxPage : Room(goToPageResult(filters, n), cap) /\ ClickPage(n)

\* the DocumentList as App renders it: useDocuments() without initial filters,
\* one list request at a time
InitApp ==
  /\ InitHook(InitialState(EmptyPartial))
  /\ InitView

NextApp ==
  \/ DoMount
  \/ AppSearch(1)
  \/ AppFilterChange(1)
  \/ AppClearAll(1)
  \/ AppClearFilters(1)
  \/ AppPrev(1)
  \/ AppNext(1)
  \/ AppPage(1)
  \/ handleSync
  \/ SyncOK
  \/ \E detail \in Details : SyncFail(detail)
  \/ TimerFires
  \/ DoListOK
  \/ DoListFail

SpecApp == InitApp /\ [][NextApp]_vars

\* ------------------------------------------------------- the SearchBar
\* what the input holds, a keystroke adding or deleting one character
SearchTexts == <<"", "a", "ab">>

OneKeyApart(v, w) ==
  \E i, j \in DOMAIN SearchTexts :
    /\ SearchTexts[i] = v
    /\ SearchTexts[j] = w
    /\ (i = j + 1 \/ j = i + 1)

barFrame == <<localFilters, syncing, syncMessage, syncInflight, timers, panel, pagination>>

\* a keystroke: the pending timer is cancelled and a new one is set
SearchBarChange(v) ==
  /\ mounted
  /\ OneKeyApart(searchBar.value, v)
  /\ searchBar' = [searchBar EXCEPT !.value = v, !.pending = TRUE, !.elapsed = 0, !.idle = 0,
                                     !.keys = Min(searchBar.keys + 1, MaxBurst)]
  /\ UNCHANGED <<mounted, barFrame>>
  /\ UNCHANGED hookVars

\* time passes while a timer is pending
SearchBarTick ==
  /\ searchBar.pending
  /\ searchBar.elapsed < DebounceMs
  /\ searchBar' = [searchBar EXCEPT !.elapsed = Min(searchBar.elapsed + TickMs, DebounceMs),
                                     !.idle = Min(searchBar.idle + TickMs, DebounceMs)]
  /\ UNCHANGED <<mounted, barFrame>>
  /\ UNCHANGED hookVars

\* the timer runs out: onSearch(value), which is DocumentList handleSearch
SearchBarTimeout ==
  /\ searchBar.pending
  /\ searchBar.elapsed >= DebounceMs
  /\ handleSearch(searchBar.value)
  /\ searchBar' = [searchBar EXCEPT !.pending = FALSE, !.elapsed = 0, !.idle = 0,
                                     !.keys = 0, !.fired = searchBar.keys]
  /\ UNCHANGED barFrame

DoSearchBarChange == \E v \in {SearchTexts[i] : i \in DOMAIN SearchTexts} : SearchBarChange(v)

DoSearchBarTimeout(cap) ==
  /\ Room(updateFiltersResult(filters, SearchPayload(searchBar.value)), cap)
  /\ SearchBarTimeout

\* the DocumentList with its SearchBar typed into
InitSearch ==
  /\ InitHook(InitialState(EmptyPartial))
  /\ InitView

NextSearch ==
  \/ DoMount
  \/ DoSearchBarChange
  \/ SearchBarTick
  \/ DoSearchBarTimeout(MaxInflight)
  \/ DoListOK
  \/ DoListFail

SpecSearch == InitSearch /\ [][NextSearch]_vars

\* ------------------------------------------------------ the SearchPanel
\* texts of the query input, character by character
Queries == { <<>>, <<" ">>, <<"a">>, <<" ", "a", " ">>, <<"a", " ", "b">> }
CompanyFilters == {"", "Apple Inc."}
FilingTypeFilters == {"", "10-K"}
PanelLimits == {5, 10}
\* response.data of POST /search, and the detail of a failure
SearchResults == {"answer x", "answer y"}

RECURSIVE TrimStart(_)
TrimStart(str) == IF str # <<>> /\ Head(str) = " " THEN TrimStart(Tail(str)) ELSE str

RECURSIVE TrimEnd(_)
TrimEnd(str) ==
  IF str # <<>> /\ str[Len(str)] = " " THEN TrimEnd(SubSeq(str, 1, Len(str) - 1)) ELSE str

\* a trim of the leading spaces only
Trim_StartOnly(str) == TrimStart(str)

\* String.prototype.trim
Trim(str) == TrimEnd(TrimStart(str))

\* value || null
OrNull(value) == IF value = "" THEN NULL ELSE value

hookFrame == <<mounted, hookVars, localFilters, syncing, syncMessage, syncInflight, timers,
              searchBar, pagination>>

\* the inputs of the form, disabled while loading
setQuery(q) ==
  /\ ~panel.loading
  /\ panel' = [panel EXCEPT !.query = q]
  /\ UNCHANGED hookFrame

setCompanyFilter(c) ==
  /\ ~panel.loading
  /\ panel' = [panel EXCEPT !.companyFilter = c]
  /\ UNCHANGED hookFrame

setFilingTypeFilter(t) ==
  /\ ~panel.loading
  /\ panel' = [panel EXCEPT !.filingTypeFilter = t]
  /\ UNCHANGED hookFrame

setLimit(n) ==
  /\ ~panel.loading
  /\ panel' = [panel EXCEPT !.limit = n]
  /\ UNCHANGED hookFrame

\* the body of the POST /search
SearchBody ==
  [query |-> Trim(panel.query),
   company_filter |-> OrNull(panel.companyFilter),
   filing_type_filter |-> OrNull(panel.filingTypeFilter),
   limit |-> panel.limit]

\* a handler that resets the state before it looks at the query
SearchPanelHandleSearch_ResetFirst ==
  /\ ~panel.loading
  /\ IF Trim(panel.query) = <<>>
     THEN panel' = [panel EXCEPT !.error = BlankQueryError, !.result = NULL]
     ELSE panel' = [panel EXCEPT !.loading = TRUE, !.error = NULL, !.result = NULL,
                                 !.posts = Append(panel.posts, SearchBody)]
  /\ UNCHANGED hookFrame

\* SearchPanel handleSearch up to its await; the form is submitted while not loading
SearchPanelHandleSearch ==
  /\ ~panel.loading
  /\ IF Trim(panel.query) = <<>>
     THEN panel' = [panel EXCEPT !.error = BlankQueryError]
     ELSE panel' = [panel EXCEPT !.loading = TRUE, !.error = NULL, !.result = NULL,
                                 !.posts = Append(panel.posts, SearchBody)]
  /\ UNCHANGED hookFrame

\* the await returns: setResult(response.data), finally setLoading(false)
SearchOK(data) ==
  /\ panel.posts # <<>>
  /\ panel' = [panel EXCEPT !.result = data, !.loading = FALSE, !.posts = Tail(panel.posts)]
  /\ UNCHANGED hookFrame

\* the await throws: setError(detail || fallback), finally setLoading(false)
SearchFail(detail) ==
  /\ panel.posts # <<>>
  /\ panel' = [panel EXCEPT !.error = IF detail \in {UNDEFINED, ""}
                                       THEN SearchFallbackError ELSE detail,
                             !.loading = FALSE, !.posts = Tail(panel.posts)]
  /\ UNCHANGED hookFrame

\* the AI search tab
InitPanel ==
  /\ InitHook(InitialState(EmptyPartial))
  /\ InitView

NextPanel ==
  \/ \E q \in Queries : setQuery(q)
  \/ \E c \in CompanyFilters : setCompanyFilter(c)
  \/ \E t \in FilingTypeFilters : setFilingTypeFilter(t)
  \/ \E n \in PanelLimits : setLimit(n)
  \/ SearchPanelHandleSearch
  \/ \E data \in SearchResults : SearchOK(data)
  \/ \E detail \in Details : SearchFail(detail)

SpecPanel == InitPanel /\ [][NextPanel]_vars

\* ------------------------------------------------------ the Pagination
paginationFrame ==
  <<mounted, hookVars, localFilters, syncing, syncMessage, syncInflight, timers, searchBar, panel>>

\* the component is given props
PaginationProps(cur, pages) ==
  /\ pagination.rendered # "no"
  /\ pagination' = Unrendered(cur, pages)
  /\ UNCHANGED paginationFrame

\* the component renders: nothing for at most one page, else the controls
PaginationRender ==
  /\ pagination.rendered = "no"
  /\ pagination' =
       IF pagination.totalPages <= 1
       THEN [pagination EXCEPT !.rendered = "null"]
       ELSE [pagination EXCEPT
               !.rendered = "controls",
               !.pageNumbers = getPageNumbers(pagination.currentPage, pagination.totalPages),
               !.buttons = NumberButtons(pagination.currentPage, pagination.totalPages)]
  /\ UNCHANGED paginationFrame

\* the Pagination under every page index and page count up to MaxTotalPages
InitPagination ==
  /\ InitHook(InitialState(EmptyPartial))
  /\ InitControls
  /\ \E cur \in 0 .. MaxTotalPages : \E pages \in 0 .. MaxTotalPages :
       pagination = Unrendered(cur, pages)

NextPagination ==
  \/ PaginationRender
  \/ \E cur \in 0 .. MaxTotalPages : \E pages \in 0 .. MaxTotalPages : PaginationProps(cur, pages)

SpecPagination == InitPagination /\ [][NextPagination]_vars

\* =============================================================== properties
AllKeys == HookKeys \cup BarKeySet

\* list requests issued by the step
IssuedNow == Len(inflight') - Len(inflight)

\* C1: with the filters unchanged since the last issued list request, a call of
\* refetch() issues one more list request.
C1_RefetchIssuesRequest ==
  [][(refetch /\ Suppressed(filters)) => IssuedNow = 1]_vars

\* C2: after updateFilters(p) skip is 0, every key of p (other than skip, which
\* the reset fixes) holds the value p gives it, and every other key is present
\* or absent, and valued, as before.
C2_UpdateFiltersMerges ==
  [][\A p \in Partials :
       updateFilters(p) =>
         /\ filters'.skip = 0
         /\ filters'.limit = (IF p.limit = <<>> THEN filters.limit ELSE p.limit[1])
         /\ \A k \in AllKeys :
              IF HasKey(p.rest, k)
              THEN HasKey(filters'.rest, k) /\ Get(filters'.rest, k) = Get(p.rest, k)
              ELSE /\ HasKey(filters'.rest, k) = HasKey(filters.rest, k)
                   /\ Get(filters'.rest, k) = Get(filters.rest, k)]_vars

\* updateFilters has merged a payload into a state that held another key
C2_Witness ==
  /\ lastCall.op = "updateFilters"
  /\ lastCall.p.rest = << <<"filing_type", "a">> >>
  /\ lastCall.issued = 1
  /\ filters.rest = << <<"search", "a">>, <<"filing_type", "a">> >>
  /\ filters.skip = 0
  /\ filters.limit = OtherLimit

\* C3: clearFilters() yields exactly {skip: 0, limit: 20}, with no other key,
\* whatever the state before and whatever initialFilters were.
C3_ClearFiltersResets ==
  [][clearFilters => filters' = [skip |-> 0, limit |-> DefaultLimit, rest |-> <<>>]]_vars

\* clearFilters has replaced a state that differed from the default one
C3_Witness ==
  /\ lastCall.op = "clearFilters"
  /\ lastCall.issued = 1
  /\ filters = [skip |-> 0, limit |-> DefaultLimit, rest |-> <<>>]

\* C4 as stated: two consecutive calls updateFilters(p); updateFilters(p) issue
\* exactly one list request between them.
C4_PairIssuesExactlyOne ==
  (lastCall.op = "updateFilters" /\ lastCall.again # -1)
    => lastCall.again + lastCall.issued = 1

\* C4 amended: of two consecutive calls updateFilters(p); updateFilters(p) the
\* second issues no list request and the two issue at most one; afterwards the
\* remembered request is the one for the resulting filter state.
C4_SecondCallSuppressed ==
  (lastCall.op = "updateFilters" /\ lastCall.again # -1)
    => /\ lastCall.issued = 0
       /\ lastCall.again + lastCall.issued <= 1
       /\ prevFiltersRef = <<JSONstringify(filters)>>

\* a second updateFilters(p) has been suppressed after a first that issued a request
C4_Witness ==
  /\ lastCall.op = "updateFilters"
  /\ lastCall.p.rest = << <<"search", "a">> >>
  /\ lastCall.again = 1
  /\ lastCall.issued = 0
  /\ latest = "pending"
  /\ inflight = <<filters>>

\* C5: a failed list request leaves documents and total as they were and sets
\* error to a non-empty value.
C5_FailureKeepsResults ==
  [][\A i \in DOMAIN inflight : \A detail \in Details :
       ListFail(i, detail) =>
         /\ documents' = documents
         /\ total' = total
         /\ error' \notin {NULL, UNDEFINED, ""}]_vars

\* the latest request has failed with the results of an earlier one on display
C5_Witness ==
  /\ latest = "failed"
  /\ error = FallbackError
  /\ documents # <<>>
  /\ total = 45
  /\ inflight = <<>>

SkipAligned == filters.skip >= 0 /\ filters.skip % filters.limit = 0

\* C6 as stated: in every reachable state skip is a non-negative multiple of limit.
C6_SkipAlwaysAligned == SkipAligned

\* C6 amended: a skip that is a non-negative multiple of limit stays one under
\* every operation except goToPage(n) with a negative n.
C6_SkipStaysAligned ==
  [][(SkipAligned /\ ~(\E n \in Pages : n < 0 /\ goToPage(n))) => SkipAligned']_vars

\* paging has moved forth and back to a later page
C6_Witness ==
  /\ lastCall.op = "prevPage"
  /\ filters.skip = filters.limit
  /\ filters.limit = OtherLimit

\* C7: the timer set by a successful sync issues a list request for the
\* current filter state, the filters being unchanged.
C7_SyncRefreshesList ==
  [][TimerFires => IssuedNow = 1]_vars

\* C8: after 'Clear All Filters' the filter state, and so the next list
\* request, holds none of filing_type, company_name, start_date, end_date.
C8_ClearAllResetsFilters ==
  [][handleClearFilters => \A k \in BarKeySet : Get(filters'.rest, k) = UNDEFINED]_vars

\* C9: the successful response of a request that is no longer the latest issued
\* is applied all the same: documents and total take its data while the
\* filters stay those of the later request.
C9_StaleResponseApplied ==
  [][\A i \in DOMAIN inflight : \A d \in Responses :
       (~IsLatest(i) /\ ListOK(i, d)) =>
         /\ documents' = Items(d)
         /\ total' = d.total
         /\ filters' = filters
         /\ prevFiltersRef' = <<JSONstringify(filters)>>]_vars

\* the latest request has succeeded, and what is on display is the response of
\* an older request that arrived after it
C9_Witness ==
  /\ inflight = <<>>
  /\ latest = "ok"
  /\ shownStale
  /\ documents # <<>>
  /\ error = NULL
  /\ prevFiltersRef = <<JSONstringify(filters)>>

\* C10: at most one list request is in flight at any moment.
C10_AtMostOneInFlight == Len(inflight) <= 1

\* C11: nextPage() followed by prevPage(), from filters with skip >= 0 and
\* limit > 0, leaves skip and the whole filter state as before the two calls.
C11_NextThenPrevRestores ==
  (/\ lastCall.op = "prevPage"
   /\ lastCall.before # <<>>
   /\ lastCall.before[1].skip >= 0
   /\ lastCall.before[1].limit > 0)
    => filters = lastCall.before[1]

\* the round trip has been made from a later page with another key set
C11_Witness ==
  /\ lastCall.op = "prevPage"
  /\ lastCall.before # <<>>
  /\ filters.skip = filters.limit
  /\ filters.limit = OtherLimit
  /\ lastCall.issued = 1

\* C12: with skip >= 0, limit > 0 and total >= 0, currentPage is floor(skip / limit)
\* and totalPages is ceil(total / limit) of the filters and total of the state.
C12_PageNumbers ==
  (filters.skip >= 0 /\ filters.limit > 0 /\ total >= 0) =>
    /\ currentPage * filters.limit <= filters.skip
    /\ filters.skip < (currentPage + 1) * filters.limit
    /\ totalPages * filters.limit >= total
    /\ (totalPages - 1) * filters.limit < total

\* a total that is no multiple of the page size, shown from a later page
C12_Witness ==
  /\ total = 45
  /\ filters.limit = DefaultLimit
  /\ filters.skip = 2 * DefaultLimit
  /\ currentPage = 2
  /\ totalPages = 3
  /\ latest = "ok"

\* C13: goToPage(n) sets skip to n * limit and leaves every other key as it was,
\* whatever total is; a successful list response is stored as it is, however
\* few items it carries, and leaves the filters, skip included, unchanged.
C13_GoToPageUnclamped ==
  [][/\ \A n \in Pages :
          goToPage(n) => /\ filters'.skip = n * filters.limit
                         /\ filters'.limit = filters.limit
                         /\ filters'.rest = filters.rest
     /\ \A i \in DOMAIN inflight : \A d \in Responses :
          ListOK(i, d) => /\ documents' = Items(d)
                          /\ total' = d.total
                          /\ filters' = filters]_vars

\* after goToPage(2) with total 45 and limit 20, the response of 5 items is on display
C13_Witness ==
  /\ lastCall.op = "goToPage"
  /\ lastCall.issued = 1
  /\ filters.skip = 2 * DefaultLimit
  /\ filters.limit = DefaultLimit
  /\ total = 45
  /\ Len(documents) = 5
  /\ inflight = <<>>

\* the step is a call of one of the operations that set the filters
FilterOp ==
  \/ \E p \in Partials : updateFilters(p)
  \/ clearFilters
  \/ nextPage
  \/ prevPage
  \/ \E n \in Pages : goToPage(n)

\* C15: the mount issues exactly one list request, for the initial filter
\* state; after it, every change of the filters to a state whose serialization
\* differs from that of the most recently issued request issues exactly one
\* list request, whose parameters are the new filter state, and that request
\* becomes the remembered one.
C15_ChangeIssuesOneRequest ==
  [][/\ Mount => /\ IssuedNow = 1
                  /\ inflight' = <<filters>>
                  /\ \E i \in InitialFilters : filters = InitialState(i)
     /\ (mounted /\ filters' # filters /\ prevFiltersRef # <<JSONstringify(filters')>>)
          => /\ IssuedNow = 1
             /\ inflight' = Append(inflight, filters')
     /\ IssuedNow = 1 => prevFiltersRef' = <<JSONstringify(inflight'[Len(inflight')])>>]_vars

\* a change of the filters after the mount request was answered has issued its request
C15_Witness ==
  /\ lastCall.op = "updateFilters"
  /\ lastCall.issued = 1
  /\ lastCall.again = -1
  /\ filters.rest = << <<"search", "a">> >>
  /\ inflight = <<filters>>
  /\ documents # <<>>

\* C16: a failed list request sets error to a string: the detail of the
\* response when it carries a message, 'Failed to fetch documents' when there
\* is no response, no detail or an empty one.
C16_ErrorIsDetailOrFallback ==
  [][\A i \in DOMAIN inflight : \A detail \in Details :
       ListFail(i, detail) =>
         /\ error' \notin {NULL, UNDEFINED}
         /\ detail \notin {UNDEFINED, ""} => error' = detail
         /\ detail \in {UNDEFINED, ""} => error' = "Failed to fetch documents"]_vars

\* the latest request has failed with a message of the server
C16_Witness ==
  /\ latest = "failed"
  /\ error = "Not found"
  /\ ~loading
  /\ inflight = <<>>

\* C17: the failure of a list request issues no list request; a list request
\* is issued only by the mount or by a call of an operation of the hook.
C17_NoAutomaticRetry ==
  [][/\ \A i \in DOMAIN inflight : \A detail \in Details :
          ListFail(i, detail) => /\ inflight' = Remove(inflight, i)
                                 /\ prevFiltersRef' = prevFiltersRef
     /\ IssuedNow > 0 => (Mount \/ FilterOp \/ refetch)]_vars

\* a request made by paging has failed and nothing is awaited
C17_Witness ==
  /\ latest = "failed"
  /\ lastCall.op = "nextPage"
  /\ lastCall.issued = 1
  /\ inflight = <<>>
  /\ ~loading
  /\ error = FallbackError

\* C18: refetch() and the resolution of a list request leave the filter state
\* unchanged; the filter state changes only in a call of updateFilters,
\* clearFilters, nextPage, prevPage or goToPage.
C18_FiltersFrame ==
  [][/\ refetch => filters' = filters
     /\ \A i \in DOMAIN inflight :
          /\ \A d \in Responses : ListOK(i, d) => filters' = filters
          /\ \A detail \in Details : ListFail(i, detail) => filters' = filters
     /\ filters' # filters => FilterOp]_vars

\* refetch() has been called on a later page with another key set
C18_Witness ==
  /\ lastCall.op = "refetch"
  /\ filters.skip > 0
  /\ filters.rest # <<>>
  /\ latest = "ok"

\* C19: prevPage() sets skip to max(0, skip - limit) and keeps limit and the
\* other keys; at skip = 0 the filters stay as they are and no list request is
\* issued.
C19_PrevPageClamps ==
  [][prevPage =>
       /\ filters'.skip = (IF filters.skip - filters.limit > 0
                           THEN filters.skip - filters.limit ELSE 0)
       /\ filters'.limit = filters.limit
       /\ filters'.rest = filters.rest
       /\ filters.skip = 0 => (filters' = filters /\ inflight' = inflight)]_vars

\* prevPage() has been called on the first page with another key set
C19_Witness ==
  /\ lastCall.op = "prevPage"
  /\ lastCall.before = <<>>
  /\ lastCall.issued = 0
  /\ filters.skip = 0
  /\ filters.rest # <<>>

\* C14 as stated: the search that ends a burst of keystrokes issues exactly
\* one list request.
C14_BurstIssuesOneRequest ==
  [][SearchBarTimeout => IssuedNow = 1]_vars

\* C14 amended: a keystroke and the passing of time call no operation of the
\* hook, and a keystroke restarts the one timer; the timer runs out only
\* DebounceMs after the last keystroke and then makes exactly one call,
\* updateFilters({search: text || undefined}) with the final text, which
\* issues one list request when it changes the serialized filter state and
\* none when it does not.
C14_BurstIssuesOneUpdate ==
  [][/\ (\E v \in {SearchTexts[i] : i \in DOMAIN SearchTexts} : SearchBarChange(v))
          => /\ UNCHANGED hookVars
             /\ searchBar'.pending
             /\ searchBar'.elapsed = 0
     /\ SearchBarTick => UNCHANGED hookVars
     /\ SearchBarTimeout
          => /\ searchBar.idle >= DebounceMs
             /\ ~searchBar'.pending
             /\ lastCall'.op = "updateFilters"
             /\ lastCall'.p.rest =
                  << <<"search", IF searchBar.value = "" THEN UNDEFINED ELSE searchBar.value>> >>
             /\ Get(filters'.rest, "search") =
                  (IF searchBar.value = "" THEN UNDEFINED ELSE searchBar.value)
             /\ IssuedNow = (IF JSONstringify(filters') = JSONstringify(filters) THEN 0 ELSE 1)
             /\ IssuedNow = 1 => inflight'[Len(inflight')] = filters'
     /\ IssuedNow > 0 => (Mount \/ SearchBarTimeout)]_vars

\* a burst of two keystrokes has ended in one search for the final text
C14_Witness ==
  /\ searchBar.fired = 2
  /\ ~searchBar.pending
  /\ searchBar.value = "ab"
  /\ lastCall.op = "updateFilters"
  /\ lastCall.issued = 1
  /\ Get(filters.rest, "search") = "ab"
  /\ Len(inflight) = 1

\* str is inner with spaces before and after it
Padded(str, inner) ==
  \E a, b \in 0 .. Len(str) :
    /\ a + Len(inner) + b = Len(str)
    /\ \A k \in 1 .. Len(str) :
         IF k <= a \/ k > a + Len(inner) THEN str[k] = " " ELSE str[k] = inner[k - a]

\* C20: submitting a query that is not blank sets loading, clears error and
\* result and sends one POST /search with the query trimmed, empty company and
\* filing type filters as null, and the limit chosen; its resolution ends
\* loading with exactly one of result and error set; while loading, result
\* and error are both null.
C20_PanelSearchLifecycle ==
  [][/\ (SearchPanelHandleSearch /\ Trim(panel.query) # <<>>)
          => /\ panel'.loading /\ panel'.error = NULL /\ panel'.result = NULL
             /\ Len(panel'.posts) = Len(panel.posts) + 1
             /\ LET body == panel'.posts[Len(panel'.posts)]
                IN  /\ Padded(panel.query, body.query)
                    /\ body.query # <<>>
                    /\ Head(body.query) # " "
                    /\ body.query[Len(body.query)] # " "
                    /\ body.company_filter =
                         (IF panel.companyFilter = "" THEN NULL ELSE panel.companyFilter)
                    /\ body.filing_type_filter =
                         (IF panel.filingTypeFilter = "" THEN NULL ELSE panel.filingTypeFilter)
                    /\ body.limit = panel.limit
     /\ \A data \in SearchResults :
          SearchOK(data) => ~panel'.loading /\ panel'.result = data /\ panel'.error = NULL
     /\ \A detail \in Details :
          SearchFail(detail) => ~panel'.loading /\ panel'.result = NULL /\ panel'.error # NULL
     /\ panel'.loading => (panel'.result = NULL /\ panel'.error = NULL)
     /\ Len(panel'.posts) <= 1]_vars

\* a padded query with a filter set has been answered
C20_Witness ==
  /\ ~panel.loading
  /\ panel.posts = <<>>
  /\ panel.result # NULL
  /\ panel.error = NULL
  /\ panel.query = <<" ", "a", " ">>
  /\ panel.companyFilter = "Apple Inc."
  /\ panel.filingTypeFilter = ""
  /\ panel.limit = 10

\* C21: at most one sync request is awaited at any time, a sync being started
\* only while syncing is false; syncing is false after every resolution of a
\* sync; a failed sync sets a message that begins with 'Error' and sets no
\* refresh timer.
C21_OneSyncAtATime ==
  [][/\ syncInflight' <= 1
     /\ handleSync => (~syncing /\ syncInflight = 0 /\ syncing')
     /\ SyncOK => ~syncing'
     /\ \A detail \in Details :
          SyncFail(detail) => /\ ~syncing'
                              /\ syncMessage' # <<>>
                              /\ Head(syncMessage') = "Error: "
                              /\ timers' = timers
                              /\ UNCHANGED hookVars]_vars

\* a sync has failed with a message of the server and the button is enabled again
C21_Witness ==
  /\ syncMessage = <<"Error: ", "Not found">>
  /\ ~syncing
  /\ syncInflight = 0
  /\ timers = 0

\* the props are a page of a list of at least two pages
InRange == pagination.totalPages >= 2
           /\ 0 <= pagination.currentPage
           /\ pagination.currentPage < pagination.totalPages

\* C22: for totalPages >= 2 and 0 <= currentPage < totalPages the window is a
\* run of consecutive ascending pages within 0 .. totalPages - 1, min(5,
\* totalPages) long, that holds currentPage; for totalPages <= 1 nothing is
\* rendered.
C22_WindowIsARun ==
  pagination.rendered # "no" =>
    /\ pagination.totalPages <= 1 <=> pagination.rendered = "null"
    /\ InRange =>
         LET w == pagination.pageNumbers
         IN  /\ Len(w) = (IF pagination.totalPages < 5 THEN pagination.totalPages ELSE 5)
             /\ \A i \in 1 .. Len(w) - 1 : w[i + 1] = w[i] + 1
             /\ \A i \in DOMAIN w : 0 <= w[i] /\ w[i] <= pagination.totalPages - 1
             /\ \E i \in DOMAIN w : w[i] = pagination.currentPage

\* the window of the last of seven pages has been moved back to five pages
C22_Witness ==
  /\ pagination.rendered = "controls"
  /\ pagination.totalPages = 7
  /\ pagination.currentPage = 6
  /\ pagination.pageNumbers = <<2, 3, 4, 5, 6>>

\* C23: for totalPages >= 2 and 0 <= currentPage < totalPages no page has two
\* buttons: the first-page and last-page buttons are not rendered next to a
\* window that holds their page.
C23_NoPageTwice ==
  (pagination.rendered = "controls" /\ InRange) =>
    \A i, j \in DOMAIN pagination.buttons :
      i # j => pagination.buttons[i] # pagination.buttons[j]

\* the FilterBar's local filters and the hook's filters agree on the four keys
BarAgrees ==
  \A k \in BarKeySet :
    IF localFilters[k] # ""
    THEN Get(filters.rest, k) = localFilters[k]
    ELSE ~HasKey(filters.rest, k)

\* C24: after every FilterBar action and after the 'Clear Filters' button's
\* clearFilters(), the hook holds, for each of the four keys, the local value
\* when it is not empty and no such key when it is.
C24_BarAndHookAgree ==
  [][(\/ \E k \in BarInputs : \E v \in Terms : handleFilterChange(k, v)
      \/ handleClearFilters
      \/ ClickClearFilters) => BarAgrees']_vars

\* C25: loading is true exactly when at least one list request is awaited.
C25_LoadingIffInFlight == loading <=> (Len(inflight) > 0)

\* C26: whenever no list request is awaited, error is non-null exactly when
\* the most recently issued list request failed.
C26_ErrorIffLatestFailed ==
  (mounted /\ inflight = <<>>) => (error # NULL <=> latest = "failed")

\* C27: in the document list, whenever loading is false and skip > 0 the
\* Previous control is rendered and enabled.
C27_PreviousReachable ==
  (mounted /\ ~loading /\ filters.skip > 0) => (PaginationShown /\ currentPage # 0)

\* C28: submitting a blank query sets error to 'Please enter a search query',
\* sends no request and leaves loading, the result and the inputs as they were.
C28_BlankQueryRefused ==
  [][(SearchPanelHandleSearch /\ \A i \in DOMAIN panel.query : panel.query[i] = " ")
       => panel' = [panel EXCEPT !.error = "Please enter a search query"]]_vars

\* a blank query has been refused with the result of an earlier search on display
C28_Witness ==
  /\ panel.error = BlankQueryError
  /\ panel.result # NULL
  /\ panel.query = <<" ">>
  /\ ~panel.loading
  /\ panel.posts = <<>>

====
